---------------------------- MODULE Spec2Model ----------------------------
(***************************************************************************)
(* Model of excavator/utils.py: typed accessors for environment variables. *)
(* The resolver get_env_value and the six coercers are operators computing *)
(* the outcome of a call (a returned value or a raised exception), the     *)
(* store reads the call made and the store after the call; one action per  *)
(* public function applies it to the ambient store.                        *)
(*                                                                         *)
(* A Python str is a sequence of one-character strings.                    *)
(***************************************************************************)
EXTENDS Integers, Sequences, FiniteSets

VARIABLES
    env,                \* os.environ: a function from the names that are set to str
    env0,               \* history: the store as the host process populated it
    iso8601_available,  \* whether `import iso8601` succeeds in this interpreter
    TRUE_VALUES,        \* the module-level set TRUE_VALUES
    pc,                 \* the caller: "idle", or "done" holding the last call's outcome
    call,               \* the last call: function and arguments
    outcome,            \* what the last call returned or raised
    lookups,            \* the names the last call read from the store, in order
    first               \* history: the outcome of the first execution of `call`

vars == <<env, env0, iso8601_available, TRUE_VALUES, pc, call, outcome, lookups,
          first>>

---------------------------------------------------------------------------
(* Bounds of the model. *)

\* Store values include every string of at most MaxLen characters over Chars.
MaxLen == 3
\* Integers -MaxInt..MaxInt are round-tripped through str and int.
MaxInt == 11

---------------------------------------------------------------------------
(* Python values. *)

MkVal(t, s, n, e, l) == [t |-> t, s |-> s, n |-> n, e |-> e, l |-> l]

\* class empty: the sentinel for "no default supplied"
empty == MkVal("empty", <<>>, 0, 0, <<>>)
None == MkVal("none", <<>>, 0, 0, <<>>)
PyBool(b) == MkVal("bool", <<>>, IF b THEN 1 ELSE 0, 0, <<>>)
PyInt(n) == MkVal("int", <<>>, n, 0, <<>>)
PyStr(s) == MkVal("str", s, 0, 0, <<>>)
PyList(l) == MkVal("list", <<>>, 0, 0, l)
\* a float: mantissa m scaled by 10^-e, e minimal
PyFloat(m, e) == MkVal("float", <<>>, m, e, <<>>)
\* a naive datetime in the local timezone at m * 10^-e seconds after the epoch
PyDatetime(m, e) == MkVal("datetime", <<>>, m, e, <<>>)
\* an aware datetime as iso8601.parse_date builds it from the date text
PyIsoDatetime(y, m, d) == MkVal("datetime_iso", <<>>, (y * 100 + m) * 100 + d, 0, <<>>)

\* Python's ==, as set membership uses it: True == 1
PyEq(a, b) ==
    \/ a = b
    \/ /\ a.t \in {"bool", "int"}
       /\ b.t \in {"bool", "int"}
       /\ a.n = b.n

\* `value in values`
PyIn(value, values) == \E v \in values : PyEq(value, v)

TRUE_VALUES_literal ==
    { PyBool(TRUE), PyStr(<<"T", "r", "u", "e">>), PyStr(<<"t", "r", "u", "e">>) }

---------------------------------------------------------------------------
(* Outcomes of a call. *)

Return(v) == [kind |-> "return", exc |-> "", msg |-> <<>>, val |-> v]
Raise(exc, msg) == [kind |-> "raise", exc |-> exc, msg |-> msg, val |-> empty]

\* outcome, store reads made, store afterwards
Result(out, reads, e) == [out |-> out, lookups |-> reads, env |-> e]

MsgInvalid == <<"Using default with required=True is invalid">>
MsgMustSet(name) == <<"Must set environment variable ", name>>
MsgNoValue(fn) ==
    <<fn, " requires either a default value to be specified, or for the variable to be present in the environment">>
MsgIso8601 == <<"Parsing iso8601 datetime strings requires the iso8601 library">>

---------------------------------------------------------------------------
(* str methods and builtins. *)

Whitespace == {" ", "\t", "\n", "\r"}

RECURSIVE lstrip(_)
lstrip(s) == IF s # <<>> /\ Head(s) \in Whitespace THEN lstrip(Tail(s)) ELSE s

RECURSIVE rstrip(_)
rstrip(s) ==
    IF s # <<>> /\ s[Len(s)] \in Whitespace
    THEN rstrip(SubSeq(s, 1, Len(s) - 1))
    ELSE s

\* v.strip()
strip(s) == rstrip(lstrip(s))

StartsWith(s, p) == Len(p) <= Len(s) /\ SubSeq(s, 1, Len(p)) = p

RECURSIVE split_from(_, _, _)
split_from(s, sep, cur) ==
    IF s = <<>> THEN <<cur>>
    ELSE IF StartsWith(s, sep)
         THEN <<cur>> \o split_from(SubSeq(s, Len(sep) + 1, Len(s)), sep, <<>>)
         ELSE split_from(Tail(s), sep, Append(cur, Head(s)))

\* value.split(separator), separator a non-empty str
split(s, sep) == split_from(s, sep, <<>>)

Digits == <<"0", "1", "2", "3", "4", "5", "6", "7", "8", "9">>
DigitChars == {Digits[i] : i \in 1..10}
DigitVal(c) == CHOOSE d \in 0..9 : Digits[d + 1] = c
IsDigits(s) == s # <<>> /\ \A i \in 1..Len(s) : s[i] \in DigitChars

RECURSIVE nat_str(_)
nat_str(n) ==
    IF n < 10 THEN <<Digits[n + 1]>>
    ELSE Append(nat_str(n \div 10), Digits[(n % 10) + 1])

\* str(n) for an int n
str(n) == IF n < 0 THEN <<"-">> \o nat_str(-n) ELSE nat_str(n)

RECURSIVE digits_val(_)
digits_val(s) ==
    IF s = <<>> THEN 0
    ELSE 10 * digits_val(SubSeq(s, 1, Len(s) - 1)) + DigitVal(s[Len(s)])

Signed(t) == t # <<>> /\ Head(t) \in {"-", "+"}
Unsign(t) == IF Signed(t) THEN Tail(t) ELSE t
Negative(t) == t # <<>> /\ Head(t) = "-"

\* the sign consumed but not applied
int_drops_sign(s) ==
    LET t == strip(s)
        body == Unsign(t)
    IN  IF IsDigits(body)
        THEN Return(PyInt(digits_val(body)))
        ELSE Raise("ValueError", <<"invalid literal for int() with base 10">>)

\* int(s) for a str s: surrounding whitespace, an optional sign, decimal digits
int_of_str(s) ==
    LET t == strip(s)
        body == Unsign(t)
    IN  IF IsDigits(body)
        THEN Return(PyInt(IF Negative(t) THEN -digits_val(body) ELSE digits_val(body)))
        ELSE Raise("ValueError", <<"invalid literal for int() with base 10">>)

\* int(value)
int(v) ==
    CASE v.t = "str" -> int_of_str(v.s)
      [] v.t \in {"int", "bool"} -> Return(PyInt(v.n))
      [] OTHER -> Raise("TypeError", <<"int() argument must be a string or a number">>)

DotAt(s) == {i \in 1..Len(s) : s[i] = "."}

RECURSIVE Normal(_, _)
Normal(m, e) == IF e > 0 /\ m % 10 = 0 THEN Normal(m \div 10, e - 1) ELSE PyFloat(m, e)

\* float(s) for a str s: surrounding whitespace, an optional sign, decimal digits
\* with at most one point and at least one digit
float_of_str(s) ==
    LET t == strip(s)
        body == Unsign(t)
        dots == DotAt(body)
        d == IF dots = {} THEN Len(body) + 1 ELSE CHOOSE i \in dots : TRUE
        ip == SubSeq(body, 1, d - 1)
        fp == SubSeq(body, d + 1, Len(body))
        m == digits_val(ip \o fp)
    IN  IF Cardinality(dots) <= 1 /\ IsDigits(ip \o fp)
        THEN Return(Normal(IF Negative(t) THEN -m ELSE m, Len(fp)))
        ELSE Raise("ValueError", <<"could not convert string to float">>)

\* float(value)
float(v) ==
    CASE v.t = "str" -> float_of_str(v.s)
      [] v.t \in {"int", "bool"} -> Return(PyFloat(v.n, 0))
      [] OTHER -> Raise("TypeError", <<"float() argument must be a string or a number">>)

\* datetime.datetime.fromtimestamp(timestamp)
fromtimestamp(ts) == Return(PyDatetime(ts.n, ts.e))

\* iso8601.parse_date(value): YYYY, YYYY-MM or YYYY-MM-DD
parse_date(v) ==
    LET s == v.s
        y == SubSeq(s, 1, 4)
        mo == SubSeq(s, 6, 7)
        da == SubSeq(s, 9, 10)
        shape ==
            /\ v.t = "str"
            /\ Len(s) \in {4, 7, 10}
            /\ IsDigits(y)
            /\ Len(s) >= 7 => s[5] = "-" /\ IsDigits(mo) /\ digits_val(mo) \in 1..12
            /\ Len(s) = 10 => s[8] = "-" /\ IsDigits(da) /\ digits_val(da) \in 1..31
    IN  IF shape
        THEN Return(PyIsoDatetime(digits_val(y),
                                  IF Len(s) >= 7 THEN digits_val(mo) ELSE 1,
                                  IF Len(s) = 10 THEN digits_val(da) ELSE 1))
        ELSE Raise("ParseError", <<"Unable to parse date string">>)

\* [v.strip() for v in pieces]
Stripped(pieces) == [i \in 1..Len(pieces) |-> strip(pieces[i])]
LStripped(pieces) == [i \in 1..Len(pieces) |-> lstrip(pieces[i])]

NonEmpty(s) == s # <<>>

---------------------------------------------------------------------------
(* The resolver. *)

Present(e, name) == name \in DOMAIN e

\* os.environ.get(name, default)
environ_get(e, name, default) == IF Present(e, name) THEN PyStr(e[name]) ELSE default

\* the guard evaluated after the store was read
get_env_value_lookup_first(e, name, required, default) ==
    IF required /\ default # empty
    THEN Result(Raise("ValueError", MsgInvalid), <<name>>, e)
    ELSE IF required
         THEN IF Present(e, name)
              THEN Result(Return(PyStr(e[name])), <<name>>, e)
              ELSE Result(Raise("KeyError", MsgMustSet(name)), <<name>>, e)
         ELSE Result(Return(environ_get(e, name, default)), <<name>>, e)

\* os.environ.get used on the required path too
get_env_value_soft_required(e, name, required, default) ==
    IF required /\ default # empty
    THEN Result(Raise("ValueError", MsgInvalid), <<>>, e)
    ELSE Result(Return(environ_get(e, name, default)), <<name>>, e)

\* the default preferred to the store
get_env_value_default_first(e, name, required, default) ==
    IF required /\ default # empty
    THEN Result(Raise("ValueError", MsgInvalid), <<>>, e)
    ELSE IF required
         THEN IF Present(e, name)
              THEN Result(Return(PyStr(e[name])), <<name>>, e)
              ELSE Result(Raise("KeyError", MsgMustSet(name)), <<name>>, e)
         ELSE Result(Return(IF default # empty THEN default
                            ELSE environ_get(e, name, default)), <<name>>, e)

\* os.environ.setdefault(name, default) in place of os.environ.get(name, default)
get_env_value_setdefault(e, name, required, default) ==
    IF required /\ default # empty
    THEN Result(Raise("ValueError", MsgInvalid), <<>>, e)
    ELSE IF required
         THEN IF Present(e, name)
              THEN Result(Return(PyStr(e[name])), <<name>>, e)
              ELSE Result(Raise("KeyError", MsgMustSet(name)), <<name>>, e)
         ELSE Result(Return(environ_get(e, name, default)), <<name>>,
                     IF ~Present(e, name) /\ default.t = "str"
                     THEN [n \in DOMAIN e \cup {name} |->
                              IF n = name THEN default.s ELSE e[n]]
                     ELSE e)

\* get_env_value(name, required=False, default=empty)
get_env_value(e, name, required, default) ==
    IF required /\ default # empty
    THEN Result(Raise("ValueError", MsgInvalid), <<>>, e)
    ELSE IF required
         THEN IF Present(e, name)
              THEN Result(Return(PyStr(e[name])), <<name>>, e)
              ELSE Result(Raise("KeyError", MsgMustSet(name)), <<name>>, e)
         ELSE Result(Return(environ_get(e, name, default)), <<name>>, e)

Raised(r) == r.out.kind = "raise"
\* the rest of a coercer, after the resolver returned: same reads, same store
Then(r, out) == Result(out, r.lookups, r.env)

---------------------------------------------------------------------------
(* The coercers. *)

\* env_int(name, required=False, default=empty)
env_int(e, name, required, default) ==
    LET r == get_env_value(e, name, required, default)
    IN  IF Raised(r) THEN r
        ELSE IF r.out.val = empty
             THEN Then(r, Raise("ValueError", MsgNoValue("env_int")))
             ELSE Then(r, int(r.out.val))

\* bool(...) of the membership test, without the sentinel check
env_bool_false_when_absent(e, tv, name, truthy_values, required, default) ==
    LET r == get_env_value(e, name, required, default)
    IN  IF Raised(r) THEN r
        ELSE Then(r, Return(PyBool(r.out.val # empty /\ PyIn(r.out.val, tv))))

\* env_bool(name, truthy_values=TRUE_VALUES, required=False, default=empty);
\* tv is the module-level TRUE_VALUES
env_bool(e, tv, name, truthy_values, required, default) ==
    LET r == get_env_value(e, name, required, default)
    IN  IF Raised(r) THEN r
        ELSE IF r.out.val = empty
             THEN Then(r, Return(None))
             ELSE Then(r, Return(PyBool(PyIn(r.out.val, tv))))

\* env_string(name, required=False, default=empty)
env_string(e, name, required, default) ==
    LET r == get_env_value(e, name, required, default)
    IN  IF Raised(r) THEN r
        ELSE IF r.out.val = empty
             THEN Then(r, Return(PyStr(<<>>)))
             ELSE r

\* v.lstrip() in place of v.strip()
env_list_lstrip(e, name, separator, required, default) ==
    LET r == get_env_value(e, name, required, default)
        value == r.out.val
    IN  IF Raised(r) THEN r
        ELSE IF value = empty THEN Then(r, Return(PyList(<<>>)))
        ELSE IF value.t # "str"
             THEN Then(r, Raise("AttributeError", <<"object has no attribute 'split'">>))
        ELSE IF separator = <<>>
             THEN Then(r, Raise("ValueError", <<"empty separator">>))
        ELSE Then(r, Return(PyList(
                 SelectSeq(LStripped(split(value.s, separator)), NonEmpty))))

\* env_list(name, separator=',', required=False, default=empty)
env_list(e, name, separator, required, default) ==
    LET r == get_env_value(e, name, required, default)
        value == r.out.val
    IN  IF Raised(r) THEN r
        ELSE IF value = empty THEN Then(r, Return(PyList(<<>>)))
        ELSE IF value.t # "str"
             THEN Then(r, Raise("AttributeError", <<"object has no attribute 'split'">>))
        ELSE IF separator = <<>>
             THEN Then(r, Raise("ValueError", <<"empty separator">>))
        ELSE Then(r, Return(PyList(
                 SelectSeq(Stripped(split(value.s, separator)), NonEmpty))))

\* timestamp = float(value); datetime.datetime.fromtimestamp(timestamp)
timestamp_of(value) ==
    LET f == float(value)
    IN  IF f.kind = "raise" THEN f ELSE fromtimestamp(f.val)

\* the caller's default handed to the resolver, as env_int does
env_timestamp_default_to_resolver(e, name, required, default) ==
    LET r == get_env_value(e, name, required, default)
    IN  IF Raised(r) THEN r
        ELSE IF r.out.val = empty
             THEN Then(r, Raise("ValueError", MsgNoValue("env_timestamp")))
             ELSE Then(r, timestamp_of(r.out.val))

\* env_timestamp(name, required=False, default=empty)
env_timestamp(e, name, required, default) ==
    IF required /\ default # empty
    THEN Result(Raise("ValueError", MsgInvalid), <<>>, e)
    ELSE LET r == get_env_value(e, name, required, empty)
             value == r.out.val
         IN  IF Raised(r) THEN r
             ELSE IF default # empty /\ value = empty THEN Then(r, Return(default))
             ELSE IF value = empty
                  THEN Then(r, Raise("ValueError", MsgNoValue("env_timestamp")))
             ELSE Then(r, timestamp_of(value))

\* the body of env_iso8601 after the import
iso8601_body(e, name, required, default) ==
    IF required /\ default # empty
    THEN Result(Raise("ValueError", MsgInvalid), <<>>, e)
    ELSE LET r == get_env_value(e, name, required, empty)
             value == r.out.val
         IN  IF Raised(r) THEN r
             ELSE IF default # empty /\ value = empty THEN Then(r, Return(default))
             ELSE IF value = empty
                  THEN Then(r, Raise("ValueError", MsgNoValue("env_iso8601")))
             ELSE Then(r, parse_date(value))

\* the import moved to the point of use, after the guard and the resolution
env_iso8601_late_import(e, available, name, required, default) ==
    IF ~available /\ ~(required /\ default # empty) /\ Present(e, name)
    THEN Result(Raise("ImportError", MsgIso8601), <<name>>, e)
    ELSE iso8601_body(e, name, required, default)

\* env_iso8601(name, required=False, default=empty)
env_iso8601(e, available, name, required, default) ==
    IF ~available
    THEN Result(Raise("ImportError", MsgIso8601), <<>>, e)
    ELSE iso8601_body(e, name, required, default)

---------------------------------------------------------------------------
(* Inputs: the stores the host process may have populated, and the         *)
(* arguments callers pass.                                                 *)

Names == {"X", "Y"}
Chars == {"a", " ", ",", "1"}

RECURSIVE StringsOfLen(_)
StringsOfLen(n) ==
    IF n = 0 THEN {<<>>}
    ELSE {Append(s, c) : s \in StringsOfLen(n - 1), c \in Chars}

ShortStrings == UNION {StringsOfLen(n) : n \in 0..MaxLen}

IntRange == (0 - MaxInt)..MaxInt
IntStrings == {str(n) : n \in IntRange}

s_true == <<"t", "r", "u", "e">>
s_True == <<"T", "r", "u", "e">>
s_false == <<"f", "a", "l", "s", "e">>
s_yes == <<"y", "e", "s">>
s_abc == <<"a", "b", "c">>
s_hi == <<" ", " ", "h", "i", " ", " ">>
s_list == <<"a", ",", " ", "b", " ", ",", ",", "c">>
s_42 == <<"4", "2">>
s_float == <<"1", ".", "5">>
s_date == <<"2", "0", "2", "0", "-", "0", "2", "-", "0", "3">>

Examples == {s_true, s_True, s_false, s_yes, s_abc, s_hi, s_list, s_42, s_float, s_date}

StoreValues == ShortStrings \cup IntStrings \cup Examples

\* X holds any store value or is unset; Y holds "true" or is unset
Stores ==
    {[n \in {} |-> <<>>]}
    \cup {[n \in {"X"} |-> v] : v \in StoreValues}
    \cup {[n \in {"Y"} |-> s_true]}
    \cup {[n \in Names |-> IF n = "X" THEN v ELSE s_true] : v \in StoreValues}

Defaults ==
    { empty, None, PyBool(TRUE), PyInt(1), PyStr(s_true), PyStr(s_yes), PyStr(s_abc),
      PyStr(s_list), PyDatetime(0, 0) }

IntDefaults == {PyStr(v) : v \in IntStrings}

TruthyChoices == { TRUE_VALUES_literal, {PyStr(s_yes)}, {PyStr(s_yes), PyStr(s_True)} }

Separators == { <<",">>, <<" ">>, <<",", ",">>, <<>> }

---------------------------------------------------------------------------
(* The state machine: a caller makes a call, may repeat it, and takes the  *)
(* outcome.                                                                *)

Call(fn, name, required, default, truthy_values, separator) ==
    [fn |-> fn, name |-> name, required |-> required, default |-> default,
     truthy_values |-> truthy_values, separator |-> separator]

NoCall == Call("none", "", FALSE, empty, {}, <<>>)
NoOutcome == [kind |-> "none", exc |-> "", msg |-> <<>>, val |-> empty]

Init ==
    /\ env \in Stores
    /\ env0 = env
    /\ iso8601_available \in BOOLEAN
    /\ TRUE_VALUES = TRUE_VALUES_literal
    /\ pc = "idle"
    /\ call = NoCall
    /\ outcome = NoOutcome
    /\ lookups = <<>>
    /\ first = NoOutcome

\* the call c, executed on the current store
Invoke(c) ==
    CASE c.fn = "get_env_value" -> get_env_value(env, c.name, c.required, c.default)
      [] c.fn = "env_int" -> env_int(env, c.name, c.required, c.default)
      [] c.fn = "env_bool" ->
            env_bool(env, TRUE_VALUES, c.name, c.truthy_values, c.required, c.default)
      [] c.fn = "env_string" -> env_string(env, c.name, c.required, c.default)
      [] c.fn = "env_list" -> env_list(env, c.name, c.separator, c.required, c.default)
      [] c.fn = "env_timestamp" -> env_timestamp(env, c.name, c.required, c.default)
      [] c.fn = "env_iso8601" ->
            env_iso8601(env, iso8601_available, c.name, c.required, c.default)

\* the call c returns or raises: the caller holds its outcome
Finish(c, r) ==
    /\ pc' = "done"
    /\ call' = c
    /\ outcome' = r.out
    /\ lookups' = r.lookups
    /\ env' = r.env
    /\ first' = r.out
    /\ UNCHANGED <<env0, iso8601_available, TRUE_VALUES>>

GetEnvValue(name, required, default) ==
    /\ pc = "idle"
    /\ Finish(Call("get_env_value", name, required, default, {}, <<>>),
              get_env_value(env, name, required, default))

EnvInt(name, required, default) ==
    /\ pc = "idle"
    /\ Finish(Call("env_int", name, required, default, {}, <<>>),
              env_int(env, name, required, default))

EnvBool(name, truthy_values, required, default) ==
    /\ pc = "idle"
    /\ Finish(Call("env_bool", name, required, default, truthy_values, <<>>),
              env_bool(env, TRUE_VALUES, name, truthy_values, required, default))

EnvString(name, required, default) ==
    /\ pc = "idle"
    /\ Finish(Call("env_string", name, required, default, {}, <<>>),
              env_string(env, name, required, default))

EnvList(name, separator, required, default) ==
    /\ pc = "idle"
    /\ Finish(Call("env_list", name, required, default, {}, separator),
              env_list(env, name, separator, required, default))

EnvTimestamp(name, required, default) ==
    /\ pc = "idle"
    /\ Finish(Call("env_timestamp", name, required, default, {}, <<>>),
              env_timestamp(env, name, required, default))

EnvIso8601(name, required, default) ==
    /\ pc = "idle"
    /\ Finish(Call("env_iso8601", name, required, default, {}, <<>>),
              env_iso8601(env, iso8601_available, name, required, default))

\* the caller makes the same call again
Repeat ==
    /\ pc = "done"
    /\ LET r == Invoke(call)
       IN  /\ outcome' = r.out
           /\ lookups' = r.lookups
           /\ env' = r.env
    /\ UNCHANGED <<env0, iso8601_available, TRUE_VALUES, pc, call, first>>

\* the caller takes the outcome
Consume ==
    /\ pc = "done"
    /\ pc' = "idle"
    /\ call' = NoCall
    /\ outcome' = NoOutcome
    /\ lookups' = <<>>
    /\ first' = NoOutcome
    /\ UNCHANGED <<env, env0, iso8601_available, TRUE_VALUES>>

Next ==
    \/ \E name \in Names, required \in BOOLEAN, default \in Defaults :
          GetEnvValue(name, required, default)
    \/ \E name \in Names, required \in BOOLEAN, default \in Defaults \cup IntDefaults :
          EnvInt(name, required, default)
    \/ \E name \in Names, truthy_values \in TruthyChoices, required \in BOOLEAN,
          default \in Defaults :
          EnvBool(name, truthy_values, required, default)
    \/ \E name \in Names, required \in BOOLEAN, default \in Defaults :
          EnvString(name, required, default)
    \/ \E name \in Names, separator \in Separators, required \in BOOLEAN,
          default \in Defaults :
          EnvList(name, separator, required, default)
    \/ \E name \in Names, required \in BOOLEAN, default \in Defaults :
          EnvTimestamp(name, required, default)
    \/ \E name \in Names, required \in BOOLEAN, default \in Defaults :
          EnvIso8601(name, required, default)
    \/ Repeat
    \/ Consume

Spec == Init /\ [][Next]_vars

---------------------------------------------------------------------------
(* Vocabulary of the properties. *)

Done == pc = "done"
Coercers == {"env_int", "env_bool", "env_string", "env_list", "env_timestamp", "env_iso8601"}
IsPresent == Present(env, call.name)
DefaultGiven == call.default # empty
\* env_iso8601 called where the iso8601 library cannot be imported
IsoDown == call.fn = "env_iso8601" /\ ~iso8601_available
InvalidArguments == Raise("ValueError", MsgInvalid)
MissingVariable == Raise("KeyError", MsgMustSet(call.name))
NoValueAvailable == Raise("ValueError", MsgNoValue(call.fn))
DependencyMissing == Raise("ImportError", MsgIso8601)
Mentions(msg, name) == \E i \in 1..Len(msg) : msg[i] = name

\* what the resolver yields when it does not fail
Resolved == IF IsPresent THEN PyStr(env[call.name]) ELSE call.default

\* s without its leading and trailing whitespace: from the first to the last
\* character that is not whitespace
Trim(s) ==
    LET keep == {i \in 1..Len(s) : s[i] \notin Whitespace}
        lo == CHOOSE i \in keep : \A j \in keep : i <= j
        hi == CHOOSE i \in keep : \A j \in keep : j <= i
    IN  IF keep = {} THEN <<>> ELSE SubSeq(s, lo, hi)

RECURSIVE Join(_, _)
Join(pieces, sep) ==
    IF Len(pieces) = 1 THEN pieces[1]
    ELSE pieces[1] \o sep \o Join(Tail(pieces), sep)

OccursAt(s, p, i) == i + Len(p) - 1 <= Len(s) /\ SubSeq(s, i, i + Len(p) - 1) = p
Occurrences(s, p) == {i \in 1..Len(s) : OccursAt(s, p, i)}

\* the list the list coercer is to build from the string s
Listed(s, sep) ==
    LET pieces == split(s, sep)
    IN  SelectSeq([i \in 1..Len(pieces) |-> Trim(pieces[i])], NonEmpty)

\* what a coercer is to make of the store's string raw
FromStore(c, raw) ==
    CASE c.fn = "env_int" -> int(PyStr(raw))
      [] c.fn = "env_bool" -> Return(PyBool(PyIn(PyStr(raw), TRUE_VALUES_literal)))
      [] c.fn = "env_string" -> Return(PyStr(raw))
      [] c.fn = "env_list" ->
            IF c.separator = <<>> THEN Raise("ValueError", <<"empty separator">>)
            ELSE Return(PyList(Listed(raw, c.separator)))
      [] c.fn = "env_timestamp" -> timestamp_of(PyStr(raw))
      [] c.fn = "env_iso8601" -> parse_date(PyStr(raw))

---------------------------------------------------------------------------
(* C1 *)

\* C1 as stated: every call of the resolver or of a coercer with required=true
\* and a default other than the sentinel fails with the invalid-arguments error,
\* whatever the store holds, before any lookup of the variable.
C1_AlwaysInvalidArguments ==
    Done /\ call.required /\ DefaultGiven
        => outcome = InvalidArguments /\ lookups = <<>>

\* C1 amended: with required=true and a default other than the sentinel, the
\* resolver and every coercer fail with the invalid-arguments error before any
\* lookup, except env_iso8601 where the iso8601 library is unavailable, which
\* fails with the dependency-missing error (also before any lookup).
C1_InvalidArgumentsUnlessIsoDown ==
    Done /\ call.required /\ DefaultGiven
        => /\ lookups = <<>>
           /\ outcome = IF IsoDown THEN DependencyMissing ELSE InvalidArguments

C1_Witness ==
    /\ Done
    /\ call.fn = "env_int"
    /\ call.required
    /\ call.default = None
    /\ IsPresent
    /\ outcome = InvalidArguments

---------------------------------------------------------------------------
(* C2 *)

\* C2 as stated: a coercer called with required=true and no default fails with the
\* missing-variable error naming the variable when the variable is absent (never a
\* soft default), and computes its result from the store's string when present.
C2_RequiredAsStated ==
    Done /\ call.fn \in Coercers /\ call.required /\ ~DefaultGiven
        => IF IsPresent
           THEN \/ outcome = FromStore(call, env[call.name])
                \/ /\ call.fn = "env_bool"
                   /\ call.truthy_values # TRUE_VALUES_literal
                   /\ outcome \in {Return(PyBool(TRUE)), Return(PyBool(FALSE))}
           ELSE /\ outcome = MissingVariable
                /\ Mentions(outcome.msg, call.name)

\* C2 amended: as stated, except that env_iso8601 where the iso8601 library is
\* unavailable fails with the dependency-missing error, variable absent or present.
C2_RequiredUnlessIsoDown ==
    Done /\ call.fn \in Coercers /\ call.required /\ ~DefaultGiven
        => IF IsoDown THEN outcome = DependencyMissing
           ELSE IF IsPresent
           THEN \/ outcome = FromStore(call, env[call.name])
                \/ /\ call.fn = "env_bool"
                   /\ call.truthy_values # TRUE_VALUES_literal
                   /\ outcome \in {Return(PyBool(TRUE)), Return(PyBool(FALSE))}
           ELSE /\ outcome = MissingVariable
                /\ Mentions(outcome.msg, call.name)

C2_Witness ==
    /\ Done
    /\ call.fn = "env_list"
    /\ call.required
    /\ ~DefaultGiven
    /\ ~IsPresent
    /\ outcome.exc = "KeyError"

---------------------------------------------------------------------------
(* C3 *)

\* C3: get_env_value with required=false returns the store's string whenever the
\* variable is present and the supplied default unchanged when it is absent; the
\* result is the sentinel only if the variable is absent and the default is the
\* sentinel.
C3_NotRequiredResolution ==
    Done /\ call.fn = "get_env_value" /\ ~call.required
        => /\ IsPresent => outcome = Return(PyStr(env[call.name]))
           /\ ~IsPresent => outcome = Return(call.default)
           /\ outcome.val = empty <=> ~IsPresent /\ ~DefaultGiven
           /\ lookups = <<call.name>>

C3_Witness ==
    /\ Done
    /\ call.fn = "get_env_value"
    /\ ~call.required
    /\ IsPresent
    /\ call.default = None
    /\ outcome = Return(PyStr(env[call.name]))

---------------------------------------------------------------------------
(* C4 *)

SoftDefault(fn) ==
    CASE fn = "env_bool" -> Return(None)
      [] fn = "env_string" -> Return(PyStr(<<>>))
      [] fn = "env_list" -> Return(PyList(<<>>))

\* C4 as stated: with the variable absent, required=false and no default, env_int,
\* env_timestamp and env_iso8601 fail with the no-value-available error, and
\* env_bool returns null, env_string the empty string, env_list an empty list.
C4_AbsencePolicyAsStated ==
    Done /\ call.fn \in Coercers /\ ~IsPresent /\ ~call.required /\ ~DefaultGiven
        => outcome = IF call.fn \in {"env_int", "env_timestamp", "env_iso8601"}
                     THEN NoValueAvailable
                     ELSE SoftDefault(call.fn)

\* C4 amended: as stated, except that env_iso8601 where the iso8601 library is
\* unavailable fails with the dependency-missing error instead.
C4_AbsencePolicyUnlessIsoDown ==
    Done /\ call.fn \in Coercers /\ ~IsPresent /\ ~call.required /\ ~DefaultGiven
        => outcome = IF IsoDown THEN DependencyMissing
                     ELSE IF call.fn \in {"env_int", "env_timestamp", "env_iso8601"}
                     THEN NoValueAvailable
                     ELSE SoftDefault(call.fn)

C4_Witness ==
    /\ Done
    /\ call.fn = "env_bool"
    /\ ~IsPresent
    /\ ~call.required
    /\ ~DefaultGiven
    /\ outcome = Return(None)

---------------------------------------------------------------------------
(* C5 *)

\* C5: env_bool, when the resolved value is not the sentinel, returns true if and
\* only if the resolved value is a member of the truthy_values the caller passed.
C5_TruthyValuesDecide ==
    Done /\ call.fn = "env_bool" /\ outcome.kind = "return" /\ Resolved # empty
        => outcome = Return(PyBool(PyIn(Resolved, call.truthy_values)))

---------------------------------------------------------------------------
(* C6 *)

\* C6: env_list, when the resolved value is a string (and the separator is not
\* empty), returns exactly the pieces between the separators, trimmed, without
\* the empty ones, in order: no element is empty or starts or ends with
\* whitespace, and there is at most one more element than separator occurrences.
C6_ListSplitTrimDrop ==
    Done /\ call.fn = "env_list" /\ ~(call.required /\ DefaultGiven)
         /\ Resolved.t = "str" /\ call.separator # <<>>
        => LET v == Resolved.s
               sep == call.separator
               pieces == split(v, sep)
               res == outcome.val.l
           IN  /\ outcome.kind = "return"
               /\ outcome.val.t = "list"
               /\ Join(pieces, sep) = v
               /\ \A i \in 1..Len(pieces) : Occurrences(pieces[i], sep) = {}
               /\ res = Listed(v, sep)
               /\ \A i \in 1..Len(res) :
                     /\ res[i] # <<>>
                     /\ Head(res[i]) \notin Whitespace
                     /\ res[i][Len(res[i])] \notin Whitespace
               /\ Len(res) <= Cardinality(Occurrences(v, sep)) + 1
               /\ v = s_list /\ sep = <<",">> => res = << <<"a">>, <<"b">>, <<"c">> >>

C6_Witness ==
    /\ Done
    /\ call.fn = "env_list"
    /\ IsPresent
    /\ env[call.name] = s_list
    /\ call.separator = <<",">>
    /\ outcome = Return(PyList(<< <<"a">>, <<"b">>, <<"c">> >>))

---------------------------------------------------------------------------
(* C7 *)

Temporal == {"env_timestamp", "env_iso8601"}
Parsed(c, raw) ==
    IF c.fn = "env_timestamp" THEN timestamp_of(PyStr(raw)) ELSE parse_date(PyStr(raw))

\* C7 as stated: env_timestamp and env_iso8601 never parse the caller's default:
\* with the variable absent, required=false and a default supplied they return
\* that default verbatim; with the variable present they parse the store's value
\* and never return the default.
C7_DefaultVerbatimAsStated ==
    Done /\ call.fn \in Temporal /\ ~(call.required /\ DefaultGiven)
        => /\ ~IsPresent /\ DefaultGiven => outcome = Return(call.default)
           /\ IsPresent => outcome = Parsed(call, env[call.name])

\* C7 amended: as stated, except that env_iso8601 where the iso8601 library is
\* unavailable fails with the dependency-missing error in both cases.
C7_DefaultVerbatimUnlessIsoDown ==
    Done /\ call.fn \in Temporal /\ ~(call.required /\ DefaultGiven)
        => IF IsoDown THEN outcome = DependencyMissing
           ELSE /\ ~IsPresent /\ DefaultGiven => outcome = Return(call.default)
                /\ IsPresent => outcome = Parsed(call, env[call.name])

C7_Witness ==
    /\ Done
    /\ call.fn = "env_timestamp"
    /\ ~IsPresent
    /\ call.default = PyStr(s_abc)
    /\ outcome = Return(PyStr(s_abc))

---------------------------------------------------------------------------
(* C8 *)

\* C8: for every integer n, env_int on a store whose variable holds str(n) returns
\* n, required or not (no default); and with the variable absent and the default
\* str(n), env_int parses the default and returns n.
C8_IntRoundTrip ==
    Done /\ call.fn = "env_int"
        => \A n \in IntRange :
              /\ IsPresent /\ env[call.name] = str(n) /\ ~DefaultGiven
                    => outcome = Return(PyInt(n))
              /\ ~IsPresent /\ ~call.required /\ call.default = PyStr(str(n))
                    => outcome = Return(PyInt(n))

C8_Witness ==
    /\ Done
    /\ call.fn = "env_int"
    /\ call.required
    /\ IsPresent
    /\ env[call.name] = str(0 - MaxInt)
    /\ outcome = Return(PyInt(0 - MaxInt))

---------------------------------------------------------------------------
(* C9 *)

\* C9: whatever calls were made and however they ended, the store holds the keys
\* and values the host process gave it and the default truthy set is unchanged;
\* a call repeated on the same store has the outcome it had the first time.
C9_StoreReadOnly ==
    /\ env = env0
    /\ TRUE_VALUES = TRUE_VALUES_literal
    /\ Done => outcome = first

C9_Witness ==
    /\ Done
    /\ call.fn = "get_env_value"
    /\ ~IsPresent
    /\ call.default = PyStr(s_yes)
    /\ lookups = <<call.name>>
    /\ outcome = Return(PyStr(s_yes))
    /\ env = env0

---------------------------------------------------------------------------
(* C10 *)

\* C10: where the iso8601 library is unavailable, every env_iso8601 call fails
\* with the dependency-missing error before the required/default guard and before
\* any lookup: also with required=true and a default, with required=true and the
\* variable absent, and with the variable absent and a default supplied.
C10_ImportCheckedFirst ==
    Done /\ IsoDown => outcome = DependencyMissing /\ lookups = <<>>

C10_Witness ==
    /\ Done
    /\ IsoDown
    /\ call.required
    /\ DefaultGiven
    /\ outcome = DependencyMissing

=============================================================================
